---------------------------- MODULE Spec2Model ----------------------------
(***************************************************************************)
(* The timing and judgment core of bevy-vsrg (src/src/note_plugin.rs).     *)
(*                                                                         *)
(* Units.  The program computes with f32 seconds and f32 pixels.  Here a   *)
(* time is an integer number of 10-microsecond steps (100000 per second)   *)
(* and a coordinate an integer number of 1/100000 pixel, so that every     *)
(* constant and every time of the documented scenario (9.9, 9.90001,       *)
(* 10.05, 10.15, 10.1501) is exact.  f32 rounding is not modelled.         *)
(*                                                                         *)
(* Scheduling.  One frame of Bevy's Update schedule runs every system      *)
(* once.  evaluate_notes, hit_note and handle_missed_notes are chained,    *)
(* and the chain puts a point where queued Commands are applied after      *)
(* evaluate_notes and after hit_note; the end of the schedule applies what *)
(* is left.  move_notes_down and spawn_notes_from_song are not ordered     *)
(* against the chain: they run at any point of the frame, and the Commands *)
(* of spawn_notes_from_song are applied at the first such point after it.  *)
(***************************************************************************)
EXTENDS Integers, Sequences, FiniteSets

\* ---------------------------------------------------------------- bounds
\* How many of load_song's 24 beatmap entries the model follows.
NumNotes == 2

\* ------------------------------------------------------------- constants
\* const HIT_MARGIN: f32 = 0.15  (seconds)
HIT_MARGIN == 15000
\* the literal 5. of spawn_notes_from_song  (seconds)
LOOKAHEAD == 500000
\* the literal 200. of move_notes_down  (pixels per second)
SPEED == 200
\* the literal -500. of load_song: y of every lane  (pixels)
LANE_Y == -50000000
\* 2. * lane_width + lane_spacing of load_song: x distance of lanes (pixels)
LANE_STEP == 15000000
\* the literal 1000. of spawn_notes_from_song: y of a new note  (pixels)
SPAWN_Y == 100000000
\* the literal 100. of spawn_notes_from_song: x step of a new note (pixels)
SPAWN_X_STEP == 10000000

Lanes == 0..3
Keys == {"KeyD", "KeyF", "KeyJ", "KeyK"}

\* load_song: entry i has lane i % 4 and time 4 + i seconds.
NoteData(i) == [lane |-> i % 4, time |-> (4 + i) * 100000]

\* The entries the model follows: NumNotes consecutive entries of the
\* beatmap, starting with entry 6 = {lane 2, time 10.0}.  Every system
\* treats each entity on its own, so the other entries do not act on these.
Entries == 6..(6 + NumNotes - 1)

\* The times the clock may show in a frame: 0; around each entry's target
\* time T, the thresholds of the code and their neighbours one step away;
\* and the times 9.9, 10.05 and 10.1501 of the documented scenario.
Offsets ==
  { -LOOKAHEAD - 1, -LOOKAHEAD, -HIT_MARGIN, -HIT_MARGIN + 1,
    0, HIT_MARGIN - 1, HIT_MARGIN, HIT_MARGIN + 1 }
ScenarioTimes == {990000, 1005000, 1015010}
TickTimes == {0} \cup ScenarioTimes \cup {NoteData(e).time + o : e \in Entries, o \in Offsets}

\* The press edges one frame may carry: none, one key, or all four.
Inputs == {{}, Keys} \cup {{k} : k \in Keys}

VARIABLES
  now,           \* Time::elapsed_secs of the current frame
  just_pressed,  \* ButtonInput::just_pressed of the current frame
  notedata,      \* the NoteData entities alive (entry ids)
  notes,         \* the Note entities, in spawn order
  chain,         \* progress of the frame, see below
  moved,         \* move_notes_down has run in this frame
  spawn_ran,     \* spawn_notes_from_song has run in this frame
  spawn_cmds,    \* Commands queued by spawn_notes_from_song
  eval_cmds,     \* Commands queued by evaluate_notes
  hit_cmds,      \* Commands queued by hit_note
  miss_cmds,     \* Commands queued by handle_missed_notes
  aborted,       \* a system has panicked
  at_start,      \* history: notes as they were when the current frame began
  song,          \* the NoteData component of every beatmap entry
  pressed,       \* ButtonInput::pressed: the keys held down
  just_released, \* ButtonInput::just_released of the current frame
  lane_color,    \* the material colour of every Lane: "idle" or "active"
  lit            \* illuminate_lane has run in this frame

\* The keyboard beyond the press edges, and the lanes' colours.
feedback == << pressed, just_released, lane_color, lit >>

vars == << now, just_pressed, notedata, notes, chain, moved, spawn_ran,
           spawn_cmds, eval_cmds, hit_cmds, miss_cmds, aborted, at_start,
           song, pressed, just_released, lane_color, lit >>

\* chain: 0 nothing of the chain has run, 1 evaluate_notes has run,
\* 2 its Commands are applied, 3 hit_note has run, 4 its Commands are
\* applied, 5 handle_missed_notes has run, 6 the frame is complete.

Abs(x) == IF x < 0 THEN -x ELSE x

Range(s) == {s[i] : i \in 1..Len(s)}

\* Ascending sequence of a finite set of integers (query iteration order).
RECURSIVE SortedSeq(_)
SortedSeq(S) ==
  IF S = {} THEN << >>
  ELSE LET m == CHOOSE x \in S : \A y \in S : x <= y
       IN << m >> \o SortedSeq(S \ {m})

\* ------------------------------------------------------------ pure parts

\* the spawn condition with < in place of <=
SpawnDueStrict(nd, current_time) == nd.time - LOOKAHEAD < current_time

\* if note_data.time - 5. <= current_time
SpawnDue(nd, current_time) == nd.time - LOOKAHEAD <= current_time

\* a NoteBundle that already carries IsEvaluable
NoteBundleEvaluable(nd) ==
  [ lane |-> nd.lane, time |-> nd.time,
    x |-> nd.lane * SPAWN_X_STEP, y |-> SPAWN_Y,
    visibility |-> "Visible", is_evaluable |-> TRUE, hit_result |-> << >> ]

\* the NoteBundle of spawn_notes_from_song
NoteBundle(nd) ==
  [ lane |-> nd.lane, time |-> nd.time,
    x |-> nd.lane * SPAWN_X_STEP, y |-> SPAWN_Y,
    visibility |-> "Visible", is_evaluable |-> FALSE, hit_result |-> << >> ]

\* the window condition with .abs() forgotten
InWindowNoAbs(note, current_time) == current_time - note.time < HIT_MARGIN

\* the window condition with <= in place of <
InWindowInclusive(note, current_time) ==
  Abs(note.time - current_time) <= HIT_MARGIN

\* if (note.time - current_time).abs() < HIT_MARGIN
InWindow(note, current_time) == Abs(note.time - current_time) < HIT_MARGIN

\* the miss condition with >= in place of >
WindowPassedInclusive(note, current_time) ==
  current_time >= note.time + HIT_MARGIN

\* the miss condition with the two times exchanged
WindowPassedReversed(note, current_time) ==
  note.time > current_time + HIT_MARGIN

\* if current_time > note.time + HIT_MARGIN
WindowPassed(note, current_time) == current_time > note.time + HIT_MARGIN

\* the match of hit_note with the keys of lanes 2 and 3 exchanged
KeyCodeSwapped(lane) ==
  CASE lane = 0 -> "KeyD"
    [] lane = 1 -> "KeyF"
    [] lane = 2 -> "KeyK"
    [] lane = 3 -> "KeyJ"
    [] OTHER -> "panic"

\* the match of hit_note with a default arm in place of the panic
KeyCodeDefaulted(lane) ==
  CASE lane = 0 -> "KeyD"
    [] lane = 1 -> "KeyF"
    [] lane = 2 -> "KeyJ"
    [] lane = 3 -> "KeyK"
    [] OTHER -> "KeyK"

\* the match of hit_note; any other lane panics
KeyCode(lane) ==
  CASE lane = 0 -> "KeyD"
    [] lane = 1 -> "KeyF"
    [] lane = 2 -> "KeyJ"
    [] lane = 3 -> "KeyK"
    [] OTHER -> "panic"

\* HitResult with the offset taken the other way round
HitResultReversed(is_hit, note, current_time) ==
  [ is_hit |-> is_hit, hit_time |-> current_time,
    offset |-> note.time - current_time ]

\* HitResult { is_hit, hit_time: current_time, offset: current_time - note.time }
HitResult(is_hit, note, current_time) ==
  [ is_hit |-> is_hit, hit_time |-> current_time,
    offset |-> current_time - note.time ]

\* the Transform of Lane(i) set by load_song
LaneX(lane) == lane * LANE_STEP

\* move_notes_down with the elapsed time added instead of subtracted
MovedToUpwards(note, current_time) ==
  [ note EXCEPT !.x = note.lane * LANE_STEP,
                !.y = LANE_Y + (current_time - note.time) * SPEED ]

\* transform.translation of a note after move_notes_down
MovedTo(note, current_time) ==
  [ note EXCEPT !.x = LaneX(note.lane),
                !.y = LANE_Y - (current_time - note.time) * SPEED ]

\* ------------------------------------------------------- queries, commands

\* evaluate_notes' query with the Without<HitResult> filter forgotten
EvaluateQueryNoResultFilter(ns) == {i \in 1..Len(ns) : ~ns[i].is_evaluable}

\* Query<(Entity, &Note), (Without<IsEvaluable>, Without<HitResult>)>
EvaluateQuery(ns) ==
  {i \in 1..Len(ns) : ~ns[i].is_evaluable /\ ns[i].hit_result = << >>}

\* Query<(Entity, &Note, ..), With<IsEvaluable>>
EvaluableQuery(ns) == {i \in 1..Len(ns) : ns[i].is_evaluable}

\* hit_note stopping at the first note it hits
HitQueryFirst(ns, edges) ==
  LET q == {i \in EvaluableQuery(ns) : KeyCode(ns[i].lane) \in edges}
  IN {i \in q : \A j \in q : i <= j}

\* the notes hit_note resolves: for (..) in &mut query { if
\* input.just_pressed(key_code) {..} } over With<IsEvaluable>
HitQuery(ns, edges) ==
  {i \in EvaluableQuery(ns) : KeyCode(ns[i].lane) \in edges}

\* evaluate_notes with the insert of IsEvaluable lost
InsertIsEvaluableLost(note) == note

\* commands.entity(entity).insert(IsEvaluable)
InsertIsEvaluable(note) == [note EXCEPT !.is_evaluable = TRUE]

\* commands.entity(entity).remove::<IsEvaluable>();
\* commands.entity(entity).insert(HitResult {..})
InsertHitResult(note, result) ==
  [note EXCEPT !.is_evaluable = FALSE, !.hit_result = << result >>]

\* commands.spawn(NoteBundle {..}) for each queued entry, in order
Spawned(ns, cmds) == ns \o [k \in 1..Len(cmds) |-> NoteBundle(song[cmds[k]])]

\* spawn_notes_from_song with the despawn of the NoteData forgotten
DespawnedNothing(nd, cmds) == nd

\* commands.entity(entity).despawn() for each queued entry
Despawned(nd, cmds) == nd \ Range(cmds)

\* Applying a queue of <<entity, HitResult>> commands
Resolved(ns, cmds) ==
  [i \in 1..Len(ns) |->
     IF \E c \in cmds : c[1] = i
     THEN InsertHitResult(ns[i], (CHOOSE c \in cmds : c[1] = i)[2])
     ELSE ns[i]]

\* Applying the queue of evaluate_notes
Evaluable(ns, cmds) ==
  [i \in 1..Len(ns) |-> IF i \in cmds THEN InsertIsEvaluable(ns[i]) ELSE ns[i]]

\* ---------------------------------------------------------------- Init
\* What load_song leaves for the entries S, whatever the first frame is.
Loaded(S) ==
  /\ now = 0
  /\ notedata = S
  /\ notes = << >>
  /\ chain = 0
  /\ moved = FALSE
  /\ spawn_ran = FALSE
  /\ spawn_cmds = << >>
  /\ eval_cmds = {}
  /\ hit_cmds = {}
  /\ miss_cmds = {}
  /\ aborted = FALSE
  /\ at_start = << >>
  /\ lane_color = [l \in Lanes |-> "idle"]
  /\ lit = FALSE

\* After Startup (load_song), at the start of the first Update: the clock
\* shows 0 and nothing has run.  Spec follows the notes only: of the
\* keyboard it takes the press edges, the one thing the note systems read,
\* and it leaves illuminate_lane out.
Init ==
  /\ now = 0
  /\ just_pressed \in Inputs
  /\ song = [e \in Entries |-> NoteData(e)]
  /\ pressed = {}
  /\ just_released = {}
  /\ lane_color = [l \in Lanes |-> "idle"]
  /\ lit = FALSE
  /\ notedata = Entries
  /\ notes = << >>
  /\ chain = 0
  /\ moved = FALSE
  /\ spawn_ran = FALSE
  /\ spawn_cmds = << >>
  /\ eval_cmds = {}
  /\ hit_cmds = {}
  /\ miss_cmds = {}
  /\ aborted = FALSE
  /\ at_start = << >>

\* -------------------------------------------------------------- systems

\* A new frame: the clock advances and the input edges are replaced.
Tick ==
  /\ ~aborted
  /\ chain = 6
  /\ \E t \in TickTimes, keys \in Inputs :
       /\ t > now
       /\ now' = t
       /\ just_pressed' = keys
  /\ chain' = 0
  /\ moved' = FALSE
  /\ spawn_ran' = FALSE
  /\ at_start' = notes
  /\ UNCHANGED << notedata, notes, spawn_cmds, eval_cmds, hit_cmds,
                  miss_cmds, aborted, song, feedback >>

\* fn move_notes_down: every note is put on its lane's x and on the y of
\* its time; a note whose lane has no Lane entity panics.  The query's
\* order is not fixed: the notes visited before the panic, any set of the
\* others, have been moved by then.
move_notes_down ==
  /\ ~aborted
  /\ chain < 6
  /\ ~moved
  /\ moved' = TRUE
  /\ IF \E i \in 1..Len(notes) : notes[i].lane \notin Lanes
     THEN /\ aborted' = TRUE
          /\ \E S \in SUBSET {i \in 1..Len(notes) : notes[i].lane \in Lanes} :
               notes' = [i \in 1..Len(notes) |->
                           IF i \in S THEN MovedTo(notes[i], now) ELSE notes[i]]
     ELSE /\ notes' = [i \in 1..Len(notes) |-> MovedTo(notes[i], now)]
          /\ UNCHANGED aborted
  /\ UNCHANGED << now, just_pressed, notedata, chain, spawn_ran, spawn_cmds,
                  eval_cmds, hit_cmds, miss_cmds, at_start,
                  song, feedback >>

\* fn spawn_notes_from_song: queues a spawn and a despawn for every NoteData
\* that is due.
spawn_notes_from_song ==
  /\ ~aborted
  /\ chain < 6
  /\ ~spawn_ran
  /\ spawn_ran' = TRUE
  /\ spawn_cmds' = SortedSeq({e \in notedata : SpawnDue(song[e], now)})
  /\ UNCHANGED << now, just_pressed, notedata, notes, chain, moved,
                  eval_cmds, hit_cmds, miss_cmds, aborted, at_start,
                  song, feedback >>

\* fn evaluate_notes: queues IsEvaluable for every note without IsEvaluable
\* and without HitResult that is inside the window.
evaluate_notes ==
  /\ ~aborted
  /\ chain = 0
  /\ chain' = 1
  /\ eval_cmds' = {i \in EvaluateQuery(notes) : InWindow(notes[i], now)}
  /\ UNCHANGED << now, just_pressed, notedata, notes, moved, spawn_ran,
                  spawn_cmds, hit_cmds, miss_cmds, aborted, at_start,
                  song, feedback >>

\* fn hit_note: for every note with IsEvaluable whose key was just pressed,
\* queues the hit and hides the note at once.  A note with IsEvaluable
\* whose lane has no key panics; the notes visited before it, any set of
\* the others that are hit, have been hidden and queued by then.
hit_note ==
  /\ ~aborted
  /\ chain = 2
  /\ chain' = 3
  /\ LET q == EvaluableQuery(notes)
         hits == HitQuery(notes, just_pressed)
     IN IF \E i \in q : KeyCode(notes[i].lane) = "panic"
        THEN /\ aborted' = TRUE
             /\ \E S \in SUBSET {i \in hits : KeyCode(notes[i].lane) # "panic"} :
                  /\ hit_cmds' = {<< i, HitResult(TRUE, notes[i], now) >> : i \in S}
                  /\ notes' = [i \in 1..Len(notes) |->
                                 IF i \in S
                                 THEN [notes[i] EXCEPT !.visibility = "Hidden"]
                                 ELSE notes[i]]
        ELSE /\ hit_cmds' = {<< i, HitResult(TRUE, notes[i], now) >> : i \in hits}
             /\ notes' = [i \in 1..Len(notes) |->
                            IF i \in hits
                            THEN [notes[i] EXCEPT !.visibility = "Hidden"]
                            ELSE notes[i]]
             /\ UNCHANGED aborted
  /\ UNCHANGED << now, just_pressed, notedata, moved, spawn_ran, spawn_cmds,
                  eval_cmds, miss_cmds, at_start,
                  song, feedback >>

\* fn handle_missed_notes: queues a miss for every note with IsEvaluable
\* whose window has passed.
handle_missed_notes ==
  /\ ~aborted
  /\ chain = 4
  /\ chain' = 5
  /\ miss_cmds' = { << i, HitResult(FALSE, notes[i], now) >> :
                      i \in {j \in EvaluableQuery(notes) : WindowPassed(notes[j], now)} }
  /\ UNCHANGED << now, just_pressed, notedata, notes, moved, spawn_ran,
                  spawn_cmds, eval_cmds, hit_cmds, aborted, at_start,
                  song, feedback >>

\* Every queue of a system that has run is applied and emptied.
Applied ==
  /\ notes' = Spawned(Resolved(Resolved(Evaluable(notes, eval_cmds), hit_cmds),
                               miss_cmds), spawn_cmds)
  /\ notedata' = Despawned(notedata, spawn_cmds)
  /\ spawn_cmds' = << >>
  /\ eval_cmds' = {}
  /\ hit_cmds' = {}
  /\ miss_cmds' = {}

\* The point after evaluate_notes (chain 1) and after hit_note (chain 3)
\* where queued Commands are applied.
ApplyDeferred ==
  /\ ~aborted
  /\ chain \in {1, 3}
  /\ chain' = chain + 1
  /\ Applied
  /\ UNCHANGED << now, just_pressed, moved, spawn_ran, aborted, at_start,
                  song, feedback >>

\* The end of the schedule: every system has run, what is queued is applied.
EndOfFrame ==
  /\ ~aborted
  /\ chain = 5
  /\ moved
  /\ spawn_ran
  /\ chain' = 6
  /\ Applied
  /\ UNCHANGED << now, just_pressed, moved, spawn_ran, aborted, at_start,
                  song, feedback >>

Next ==
  \/ Tick
  \/ move_notes_down
  \/ spawn_notes_from_song
  \/ evaluate_notes
  \/ ApplyDeferred
  \/ hit_note
  \/ handle_missed_notes
  \/ EndOfFrame

Spec == Init /\ [][Next]_vars

\* ------------------------------------------------- keyboard and lanes

\* What the events of key k within one frame leave in ButtonInput, given
\* the keys held before: a press counts if the key was up, a release if it
\* was down, and both edges stay set until the next frame.  The runs are
\* press / press, release / press, release, press when k was up, and
\* release / release, press / release, press, release when it was down.
KeyEvents(held, k) ==
  IF k \in held
  THEN { [pressed |-> held \ {k}, just_pressed |-> {}, just_released |-> {k}],
         [pressed |-> held, just_pressed |-> {k}, just_released |-> {k}],
         [pressed |-> held \ {k}, just_pressed |-> {k}, just_released |-> {k}] }
  ELSE { [pressed |-> held \cup {k}, just_pressed |-> {k}, just_released |-> {}],
         [pressed |-> held, just_pressed |-> {k}, just_released |-> {k}],
         [pressed |-> held \cup {k}, just_pressed |-> {k}, just_released |-> {k}] }

\* The keyboards one frame may show: no event, or the events of one of keys.
KeyboardFrames(held, keys) ==
  { [pressed |-> held, just_pressed |-> {}, just_released |-> {}] }
    \cup UNION { KeyEvents(held, k) : k \in keys }

\* the match of illuminate_lane with the keys of lanes 2 and 3 exchanged
LaneKeyCodeSwapped(lane) ==
  CASE lane = 0 -> "KeyD"
    [] lane = 1 -> "KeyF"
    [] lane = 2 -> "KeyK"
    [] lane = 3 -> "KeyJ"
    [] OTHER -> "panic"

\* the match of illuminate_lane: the key whose edges colour the lane
LaneKeyCode(lane) ==
  CASE lane = 0 -> "KeyD"
    [] lane = 1 -> "KeyF"
    [] lane = 2 -> "KeyJ"
    [] lane = 3 -> "KeyK"
    [] OTHER -> "panic"

\* if input.just_pressed(key) { .. } else if input.just_released(key) { .. }
Illuminated(color, key, edges_down, edges_up) ==
  IF key \in edges_down THEN "active"
  ELSE IF key \in edges_up THEN "idle"
  ELSE color

\* fn illuminate_lane: every Lane takes the colour its key's edges ask for.
illuminate_lane ==
  /\ ~aborted
  /\ chain < 6
  /\ ~lit
  /\ lit' = TRUE
  /\ lane_color' = [l \in Lanes |->
                      Illuminated(lane_color[l], LaneKeyCode(l),
                                  just_pressed, just_released)]
  /\ UNCHANGED << now, just_pressed, notedata, notes, chain, moved, spawn_ran,
                  spawn_cmds, eval_cmds, hit_cmds, miss_cmds, aborted,
                  at_start, song, pressed, just_released >>

\* A new frame with the whole keyboard: the clock advances to one of times
\* and ButtonInput becomes one of keyboards.
NewFrame(times, keyboards) ==
  /\ ~aborted
  /\ chain = 6
  /\ \E t \in times, k \in keyboards :
       /\ t > now
       /\ now' = t
       /\ pressed' = k.pressed
       /\ just_pressed' = k.just_pressed
       /\ just_released' = k.just_released
  /\ chain' = 0
  /\ moved' = FALSE
  /\ spawn_ran' = FALSE
  /\ lit' = FALSE
  /\ at_start' = notes
  /\ UNCHANGED << notedata, notes, spawn_cmds, eval_cmds, hit_cmds,
                  miss_cmds, aborted, song, lane_color >>

\* The end of the schedule when illuminate_lane is followed too.
EndOfFrameLit == lit /\ EndOfFrame

\* ------------------------------------------------------------- SpecPlay
\* The whole plugin, illuminate_lane and the keyboard's held keys and
\* release edges included, on two entries of one lane: entry 6 = {lane 2,
\* time 10.0} and entry 10 = {lane 2, time 14.0}.
PlayEntries == {6, 10}

\* Frame times: the two spawn times, each target time, the close of each
\* window and one step after it.
PlayTimes == { 500000, 900000, 1000000, 1015000, 1015001,
               1400000, 1415000, 1415001 }

\* The keys that have events: those of lanes 2 and 3.
PlayKeys == {"KeyJ", "KeyK"}

InitPlay ==
  /\ Loaded(PlayEntries)
  /\ song = [e \in PlayEntries |-> NoteData(e)]
  /\ \E k \in KeyboardFrames({}, PlayKeys) :
       /\ pressed = k.pressed
       /\ just_pressed = k.just_pressed
       /\ just_released = k.just_released

TickPlay == NewFrame(PlayTimes, KeyboardFrames(pressed, PlayKeys))

NextPlay ==
  \/ TickPlay
  \/ move_notes_down
  \/ spawn_notes_from_song
  \/ evaluate_notes
  \/ ApplyDeferred
  \/ hit_note
  \/ handle_missed_notes
  \/ illuminate_lane
  \/ EndOfFrameLit

SpecPlay == InitPlay /\ [][NextPlay]_vars

\* ---------------------------------------------------------- SpecBeatmap
\* The note systems on beatmaps that load_song does not build: entries 6
\* and 7 with the lane of one of them replaced by a value of u8 that has
\* no Lane entity and no key; the beatmap as built is among them.
BadLanes == {4, 200}

WithLane(e, lane) ==
  [d \in Entries |-> IF d = e THEN [NoteData(d) EXCEPT !.lane = lane]
                               ELSE NoteData(d)]

Beatmaps ==
  { [d \in Entries |-> NoteData(d)] }
    \cup { WithLane(e, b) : e \in Entries, b \in BadLanes }

\* Frame times: the spawn time of each entry, the target times, and the
\* edges of the window of entry 6; a frame may follow the spawn of a note
\* by five seconds and find it inside its window.
BeatmapTimes ==
  { NoteData(6).time - LOOKAHEAD, NoteData(7).time - LOOKAHEAD,
    NoteData(6).time - HIT_MARGIN + 1, NoteData(6).time,
    NoteData(6).time + HIT_MARGIN + 1, NoteData(7).time,
    NoteData(7).time + HIT_MARGIN + 1 }

InitBeatmap ==
  /\ Loaded(Entries)
  /\ song \in Beatmaps
  /\ \E k \in KeyboardFrames({}, PlayKeys) :
       /\ pressed = k.pressed
       /\ just_pressed = k.just_pressed
       /\ just_released = k.just_released

TickBeatmap == NewFrame(BeatmapTimes, KeyboardFrames(pressed, PlayKeys))

NextBeatmap ==
  \/ TickBeatmap
  \/ move_notes_down
  \/ spawn_notes_from_song
  \/ evaluate_notes
  \/ ApplyDeferred
  \/ hit_note
  \/ handle_missed_notes
  \/ EndOfFrame

SpecBeatmap == InitBeatmap /\ [][NextBeatmap]_vars

\* ------------------------------------------------------------ vocabulary
\* The words of the specification, in terms of the components of a Note.

HasOutcome(note) == note.hit_result # << >>
Eligible(note) == note.is_evaluable
Pending(note) == ~note.is_evaluable /\ note.hit_result = << >>
FrameComplete == chain = 6

\* The specification's lane-to-key table {0:D, 1:F, 2:J, 3:K}.
BoundKey(lane) == << "KeyD", "KeyF", "KeyJ", "KeyK" >>[lane + 1]

\* How many LiveNotes carry the lane and target time of beatmap entry e.
LiveNotesOf(e) ==
  Cardinality({i \in 1..Len(notes) :
                 /\ notes[i].lane = e % 4
                 /\ notes[i].time = (4 + e) * 100000})

\* ------------------------------------------------------------------- C1
\* C1: once a LiveNote carries an Outcome, no step of any later frame
\* changes its judgment: the note stays in place, keeps exactly the Outcome
\* it has (isHit, resolutionTime, offset) and is never Eligible again.
C1_OneResolution ==
  [][\A i \in 1..Len(notes) :
       HasOutcome(notes[i]) =>
         /\ i <= Len(notes')
         /\ notes'[i].hit_result = notes[i].hit_result
         /\ ~notes'[i].is_evaluable
         /\ ~notes[i].is_evaluable]_vars

\* C1 witness: a note resolved in an earlier frame has gone through a whole
\* later frame that was still inside its window and carried its key's
\* press edge.
C1_Witness ==
  /\ FrameComplete
  /\ \E i \in 1..Len(notes) :
       /\ HasOutcome(notes[i])
       /\ notes[i].hit_result[1].hit_time < now
       /\ Abs(now - notes[i].time) < HIT_MARGIN
       /\ BoundKey(notes[i].lane) \in just_pressed

\* ------------------------------------------------------------------- C2
\* C2: every beatmap entry is either still pending with no LiveNote, or
\* consumed with exactly one LiveNote of its lane and target time, never
\* two; and once a frame whose time meets the spawn condition is complete
\* the entry is consumed and has exactly one LiveNote.
C2_IdempotentSpawn ==
  \A e \in Entries :
    /\ \/ e \in notedata /\ LiveNotesOf(e) = 0
       \/ e \notin notedata /\ LiveNotesOf(e) = 1
    /\ (FrameComplete /\ (4 + e) * 100000 - LOOKAHEAD <= now)
         => (e \notin notedata /\ LiveNotesOf(e) = 1)

\* C2 witness: an entry was spawned in an earlier frame and
\* spawn_notes_from_song has run again since, in a frame now complete.
C2_Witness ==
  /\ FrameComplete
  /\ \E i \in 1..Len(at_start) : at_start[i].lane = 2 /\ at_start[i].time = 1000000
  /\ LiveNotesOf(6) = 1

\* ------------------------------------------------------------------- C3
\* C3: every Outcome with isHit = true was created at a time t with
\* |t - targetTime| <= HIT_MARGIN, so its |offset| is at most HIT_MARGIN.
C3_HitInsideWindow ==
  \A i \in 1..Len(notes) :
    (HasOutcome(notes[i]) /\ notes[i].hit_result[1].is_hit) =>
      /\ Abs(notes[i].hit_result[1].hit_time - notes[i].time) <= HIT_MARGIN
      /\ Abs(notes[i].hit_result[1].offset) <= HIT_MARGIN

\* ------------------------------------------------------------------- C4
\* C4: a Pending LiveNote becomes Eligible in a step if and only if that
\* step applies the Commands of evaluate_notes in a frame whose time t has
\* |t - targetTime| < HIT_MARGIN; in every other step, and at any other
\* time, it stays Pending or is left as it is.
C4_EligibilityWindow ==
  [][\A i \in 1..Len(notes) :
       Pending(notes[i]) =>
         /\ i <= Len(notes')
         /\ notes'[i].is_evaluable <=>
              /\ chain = 1
              /\ chain' = 2
              /\ now - notes[i].time < HIT_MARGIN
              /\ notes[i].time - now < HIT_MARGIN
         /\ ~notes'[i].is_evaluable => Pending(notes'[i])]_vars

\* C4 witness: a note that was Pending when the frame began has just been
\* made Eligible at the last time step before the window closes.
C4_Witness ==
  /\ chain = 2
  /\ \E i \in 1..Len(at_start) :
       /\ Pending(at_start[i])
       /\ Eligible(notes[i])
       /\ now = notes[i].time + HIT_MARGIN - 1

\* ------------------------------------------------------------------- C5
\* C5: at the end of any frame whose time is past the window of a LiveNote
\* (t > targetTime + HIT_MARGIN) that existed when the frame began, the note
\* is Resolved, neither Pending nor Eligible.
C5_ResolvedAfterWindow ==
  FrameComplete =>
    \A i \in 1..Len(at_start) :
      now > notes[i].time + HIT_MARGIN =>
        (HasOutcome(notes[i]) /\ ~Eligible(notes[i]))

\* ------------------------------------------------------------------- C6
\* C6: a frame at t = T + HIT_MARGIN - 1 (one time step before the window
\* closes) that carries the press edge of the lane's key leaves a note that
\* was unresolved when the frame began resolved as a hit of that frame; a
\* frame at t = T + HIT_MARGIN + 1 without that press edge leaves a note
\* that was Eligible when the frame began resolved as a miss of that frame.
C6_HitPrecedence ==
  FrameComplete =>
    \A i \in 1..Len(at_start) :
      /\ ( /\ ~HasOutcome(at_start[i])
           /\ now = at_start[i].time + HIT_MARGIN - 1
           /\ BoundKey(at_start[i].lane) \in just_pressed )
           => notes[i].hit_result =
                << [is_hit |-> TRUE, hit_time |-> now, offset |-> HIT_MARGIN - 1] >>
      /\ ( /\ Eligible(at_start[i])
           /\ now = at_start[i].time + HIT_MARGIN + 1
           /\ BoundKey(at_start[i].lane) \notin just_pressed )
           => notes[i].hit_result =
                << [is_hit |-> FALSE, hit_time |-> now, offset |-> HIT_MARGIN + 1] >>

\* C6 witness: a note still Pending when the frame began was pressed one
\* time step before its window closed, and the frame is complete.
C6_Witness ==
  /\ FrameComplete
  /\ \E i \in 1..Len(at_start) :
       /\ Pending(at_start[i])
       /\ now = at_start[i].time + HIT_MARGIN - 1
       /\ BoundKey(at_start[i].lane) \in just_pressed
       /\ HasOutcome(notes[i])

\* ------------------------------------------------------------------- C7
\* C7: an entry with target time T has left the pending set, or has a
\* LiveNote or a queued spawn, only if the clock has reached T - 5.0; and
\* once a frame with t >= T - 5.0 is complete the entry is no longer
\* pending and its LiveNote exists.  The clock never goes back, so the
\* LiveNote is created in the first frame with t >= T - 5.0.
C7_SpawnCondition ==
  \A e \in Entries :
    LET T == (4 + e) * 100000 IN
      /\ (LiveNotesOf(e) > 0 \/ e \notin notedata \/ e \in Range(spawn_cmds))
           => now >= T - 500000
      /\ (FrameComplete /\ now >= T - 500000)
           => (e \notin notedata /\ LiveNotesOf(e) > 0)

\* C7 witness: the frame at exactly t = 10.0 - 5.0 is complete and has
\* created the LiveNote of entry 6, which did not exist when it began.
C7_Witness ==
  /\ FrameComplete
  /\ now = 500000
  /\ LiveNotesOf(6) = 1
  /\ at_start = << >>

\* ------------------------------------------------------------------- C8
\* C8 as stated: for the note {lane 2, targetTime 10.0}, at the end of a
\* frame at t = 9.9 the note is still Pending, and it is Eligible at the
\* end of a frame only if 9.9 < t <= 10.15.
C8_AsStated ==
  FrameComplete =>
    \A i \in 1..Len(notes) :
      (notes[i].lane = 2 /\ notes[i].time = 1000000) =>
        /\ now = 990000 => Pending(notes[i])
        /\ Eligible(notes[i]) => (990000 < now /\ now <= 1015000)

\* C8 amended: the window opens at 10.0 - 0.15 = 9.85, not at 9.9: at the
\* end of a frame at t <= 9.85 the note is still Pending, and it is
\* Eligible at the end of a frame only if 9.85 < t <= 10.15.
C8_EligibleFrom985 ==
  FrameComplete =>
    \A i \in 1..Len(notes) :
      (notes[i].lane = 2 /\ notes[i].time = 1000000) =>
        /\ now <= 985000 => Pending(notes[i])
        /\ Eligible(notes[i]) => (985000 < now /\ now <= 1015000)

\* C8 witness: the note was Pending when the frame at t = 9.9 began and is
\* Eligible at its end.
C8_Witness ==
  /\ FrameComplete
  /\ now = 990000
  /\ \E i \in 1..Len(at_start) :
       /\ notes[i].lane = 2
       /\ notes[i].time = 1000000
       /\ Pending(at_start[i])
       /\ Eligible(notes[i])

\* ------------------------------------------------------------------- C9
\* C9: every Outcome has offset = resolutionTime - targetTime and, at the
\* end of the frame that created it, resolutionTime = the frame's time.
\* For the note {lane 2, targetTime 10.0}, Eligible when the frame began: a
\* frame at t = 10.05 with the press edge of KeyJ leaves the Outcome
\* {true, 10.05, 0.05}; a frame at t = 10.1501 without it leaves
\* {false, 10.1501, 0.1501}.
C9_Outcomes ==
  /\ \A i \in 1..Len(notes) :
       HasOutcome(notes[i]) =>
         /\ notes[i].hit_result[1].offset =
              notes[i].hit_result[1].hit_time - notes[i].time
         /\ notes[i].hit_result[1].hit_time <= now
         /\ (i > Len(at_start) \/ ~HasOutcome(at_start[i]))
              => notes[i].hit_result[1].hit_time = now
  /\ FrameComplete =>
       \A i \in 1..Len(at_start) :
         (at_start[i].lane = 2 /\ at_start[i].time = 1000000 /\ Eligible(at_start[i])) =>
           /\ (now = 1005000 /\ "KeyJ" \in just_pressed)
                => notes[i].hit_result =
                     << [is_hit |-> TRUE, hit_time |-> 1005000, offset |-> 5000] >>
           /\ (now = 1015010 /\ "KeyJ" \notin just_pressed)
                => notes[i].hit_result =
                     << [is_hit |-> FALSE, hit_time |-> 1015010, offset |-> 15010] >>

\* C9 witness: the Eligible note {lane 2, targetTime 10.0} went through a
\* frame at t = 10.1501 without the press edge of KeyJ.
C9_Witness ==
  /\ FrameComplete
  /\ now = 1015010
  /\ "KeyJ" \notin just_pressed
  /\ \E i \in 1..Len(at_start) :
       /\ at_start[i].lane = 2
       /\ at_start[i].time = 1000000
       /\ Eligible(at_start[i])
       /\ HasOutcome(notes[i])

\* ------------------------------------------------------------------ C10
\* C10: once move_notes_down has run in a frame at time t, every LiveNote
\* that existed when the frame began has x = 150 * lane and
\* y = -500 - (t - targetTime) * 200; this y is strictly below the y the
\* note had when the frame began, equals the anchor's y exactly when
\* t = targetTime, and is above it before and below it after.
C10_Motion ==
  moved =>
    \A i \in 1..Len(at_start) :
      /\ notes[i].x = notes[i].lane * 15000000
      /\ notes[i].y = -50000000 - (now - notes[i].time) * 200
      /\ notes[i].y < at_start[i].y
      /\ (notes[i].y = -50000000) <=> (now = notes[i].time)
      /\ (notes[i].y > -50000000) <=> (now < notes[i].time)

\* C10 witness: a note moved in an earlier frame has been moved again, in a
\* frame at exactly its target time.
C10_Witness ==
  /\ moved
  /\ \E i \in 1..Len(at_start) :
       /\ at_start[i].y < 100000000
       /\ now = notes[i].time
       /\ notes[i].y = -50000000

\* ------------------------------------------------------------------ C13
\* The judgment a note has at the end of a frame at time t with press
\* edges keys, given the note n as it was when the frame began: the
\* tracker, the hit resolver and the miss resolver in this order.
JudgedInOrder(n, t, keys) ==
  LET elig == \/ n.is_evaluable
              \/ /\ n.hit_result = << >>
                 /\ t - n.time < HIT_MARGIN
                 /\ n.time - t < HIT_MARGIN
  IN IF elig /\ BoundKey(n.lane) \in keys
       THEN [ eligible |-> FALSE,
              outcome |-> << [is_hit |-> TRUE, hit_time |-> t, offset |-> t - n.time] >> ]
     ELSE IF elig /\ t > n.time + HIT_MARGIN
       THEN [ eligible |-> FALSE,
              outcome |-> << [is_hit |-> FALSE, hit_time |-> t, offset |-> t - n.time] >> ]
     ELSE [ eligible |-> elig, outcome |-> n.hit_result ]

\* C13: whatever places move_notes_down and spawn_notes_from_song took in
\* the frame, at its end the judgment of every note that existed when the
\* frame began is JudgedInOrder of its judgment then, the frame's time and
\* the frame's press edges; every note created in the frame is Pending; and
\* the entries that have a LiveNote are exactly those with
\* targetTime - 5.0 <= t.  So the Outcomes are a function of the beatmap,
\* the times and the key edges alone.
C13_OrderIndependence ==
  FrameComplete =>
    /\ \A i \in 1..Len(at_start) :
         /\ notes[i].lane = at_start[i].lane
         /\ notes[i].time = at_start[i].time
         /\ [ eligible |-> notes[i].is_evaluable, outcome |-> notes[i].hit_result ]
              = JudgedInOrder(at_start[i], now, just_pressed)
    /\ \A i \in (Len(at_start) + 1)..Len(notes) : Pending(notes[i])
    /\ \A e \in DOMAIN song :
         LiveNotesOf(e) = IF (4 + e) * 100000 - 500000 <= now THEN 1 ELSE 0

\* C13 witness: beside an older note, a note was created in a frame whose
\* time is inside its window and which carried its key's press edge, and
\* the frame is complete.
C13_Witness ==
  /\ FrameComplete
  /\ Len(notes) > Len(at_start)
  /\ \E i \in (Len(at_start) + 1)..Len(notes) :
       /\ Abs(now - notes[i].time) < HIT_MARGIN
       /\ BoundKey(notes[i].lane) \in just_pressed
       /\ Pending(notes[i])
  /\ Len(at_start) > 0

\* ------------------------------------------------------------------ C14
\* C14: every LiveNote that carries an Outcome, hit or miss, is hidden
\* (no system despawns a Note, so hidden is all that is left).
C14_ResolvedHidden ==
  \A i \in 1..Len(notes) :
    HasOutcome(notes[i]) => notes[i].visibility = "Hidden"

\* ------------------------------------------------------------------ C15
\* C15: a note that was Pending when a frame began, in a frame whose time
\* t has |t - targetTime| < HIT_MARGIN and that carries the press edge of
\* its lane's key, is Resolved as a hit of that frame when the frame ends.
C15_EligibleBeforeJudged ==
  FrameComplete =>
    \A i \in 1..Len(at_start) :
      ( /\ Pending(at_start[i])
        /\ now - at_start[i].time < HIT_MARGIN
        /\ at_start[i].time - now < HIT_MARGIN
        /\ BoundKey(at_start[i].lane) \in just_pressed )
        => /\ ~Eligible(notes[i])
           /\ HasOutcome(notes[i])
           /\ notes[i].hit_result[1].is_hit
           /\ notes[i].hit_result[1].hit_time = now

\* C15 witness: such a note, pressed in the first time step of its window.
C15_Witness ==
  /\ FrameComplete
  /\ \E i \in 1..Len(at_start) :
       /\ Pending(at_start[i])
       /\ now = at_start[i].time - HIT_MARGIN + 1
       /\ just_pressed = {BoundKey(at_start[i].lane)}
       /\ HasOutcome(notes[i])

\* ------------------------------------------------------------------ C17
\* C17: a note Eligible in a frame (Eligible when it began, or Pending and
\* made Eligible in it) whose key's press edge the frame does not carry
\* ends the frame Resolved as a miss of that frame if t > targetTime +
\* HIT_MARGIN, and still Eligible with no Outcome otherwise (also at
\* t = targetTime + HIT_MARGIN).  Every miss Outcome has offset >
\* HIT_MARGIN, and no note Pending when a frame began is a miss at its end.
C17_MissResolution ==
  /\ \A i \in 1..Len(notes) :
       (HasOutcome(notes[i]) /\ ~notes[i].hit_result[1].is_hit)
         => notes[i].hit_result[1].offset > HIT_MARGIN
  /\ FrameComplete =>
       \A i \in 1..Len(at_start) :
         /\ ( /\ \/ Eligible(at_start[i])
                 \/ Pending(at_start[i]) /\ Abs(now - at_start[i].time) < HIT_MARGIN
              /\ BoundKey(at_start[i].lane) \notin just_pressed )
              => IF now > at_start[i].time + HIT_MARGIN
                 THEN notes[i].hit_result =
                        << [ is_hit |-> FALSE, hit_time |-> now,
                             offset |-> now - at_start[i].time ] >>
                 ELSE Eligible(notes[i]) /\ ~HasOutcome(notes[i])
         /\ Pending(at_start[i])
              => ~(HasOutcome(notes[i]) /\ ~notes[i].hit_result[1].is_hit)

\* C17 witness: an Eligible note went through a frame at exactly
\* t = targetTime + HIT_MARGIN without its key's press edge and is still
\* Eligible.
C17_Witness ==
  /\ FrameComplete
  /\ \E i \in 1..Len(at_start) :
       /\ Eligible(at_start[i])
       /\ now = at_start[i].time + HIT_MARGIN
       /\ BoundKey(at_start[i].lane) \notin just_pressed
       /\ Eligible(notes[i])

\* ------------------------------------------------------------------ C19
\* C19: no LiveNote is Eligible or carries an Outcome, and none is queued
\* to become so, while the clock is at or before targetTime - HIT_MARGIN;
\* every Outcome has offset > -HIT_MARGIN; a press edge in such a frame
\* leaves the note Pending and visible.
C19_NoEarlyJudgment ==
  /\ \A i \in 1..Len(notes) :
       /\ now <= notes[i].time - HIT_MARGIN
            => /\ Pending(notes[i])
               /\ notes[i].visibility = "Visible"
               /\ i \notin eval_cmds
               /\ \A c \in hit_cmds \cup miss_cmds : c[1] # i
       /\ HasOutcome(notes[i]) => notes[i].hit_result[1].offset > -HIT_MARGIN

\* C19 witness: a note went through a whole frame at exactly
\* t = targetTime - HIT_MARGIN that carried its key's press edge.
C19_Witness ==
  /\ FrameComplete
  /\ \E i \in 1..Len(at_start) :
       /\ now = notes[i].time - HIT_MARGIN
       /\ BoundKey(notes[i].lane) \in just_pressed
       /\ Pending(notes[i])

\* C11 (as stated): Lane Feedback is a two-state toggle that follows the
\* key: once illuminate_lane has run in a frame, a lane whose bound key had
\* a release edge and ends the frame released is idle, whatever other edge
\* of that key the frame carried, so at the end of a frame no lane is
\* active while its key is released.
C11_NeverActiveWhileReleased ==
  FrameComplete =>
    \A l \in Lanes :
      /\ (BoundKey(l) \in just_released /\ BoundKey(l) \notin pressed
            => lane_color[l] = "idle")
      /\ (lane_color[l] = "active" => BoundKey(l) \in pressed)

\* ------------------------------------------------------------------ C16
\* C16: the step of hit_note and the application of its commands resolve
\* exactly the matching set.  With M the Eligible notes whose lane's key
\* (0:D, 1:F, 2:J, 3:K) has a press edge in the frame, hit_note queues one
\* hit per note of M and nothing else, hides the notes of M and leaves the
\* visibility of every other note and the judgment of every note as they
\* are; applying the queue gives each queued note its hit Outcome and
\* leaves the judgment and visibility of every other note unchanged.  All
\* notes of M are taken when several share a lane, and a key that is held
\* without a press edge takes none.
C16_ExactlyTheMatchingSet ==
  [][ /\ (chain = 2 /\ chain' = 3) =>
           LET M == {i \in 1..Len(notes) :
                       /\ notes[i].is_evaluable
                       /\ BoundKey(notes[i].lane) \in just_pressed}
           IN /\ Len(notes') = Len(notes)
              /\ {c[1] : c \in hit_cmds'} = M
              /\ Cardinality(hit_cmds') = Cardinality(M)
              /\ \A c \in hit_cmds' :
                   /\ c[2].is_hit
                   /\ c[2].hit_time = now
                   /\ c[2].offset = now - notes[c[1]].time
              /\ \A i \in 1..Len(notes) :
                   /\ notes'[i].is_evaluable = notes[i].is_evaluable
                   /\ notes'[i].hit_result = notes[i].hit_result
                   /\ notes'[i].visibility =
                        IF i \in M THEN "Hidden" ELSE notes[i].visibility
      /\ (chain = 3 /\ chain' = 4) =>
           \A i \in 1..Len(notes) :
             IF \E c \in hit_cmds : c[1] = i
             THEN /\ ~notes'[i].is_evaluable
                  /\ \E c \in hit_cmds : c[1] = i /\ notes'[i].hit_result = << c[2] >>
                  /\ notes'[i].visibility = notes[i].visibility
             ELSE /\ notes'[i].is_evaluable = notes[i].is_evaluable
                  /\ notes'[i].hit_result = notes[i].hit_result
                  /\ notes'[i].visibility = notes[i].visibility
    ]_vars

\* C16 witness: the commands of hit_note have just been applied in a frame
\* with the press edge of KeyJ, and two notes of lane 2 that were both
\* Eligible carry the hit of this frame.
C16_Witness ==
  /\ chain = 4
  /\ "KeyJ" \in just_pressed
  /\ \E i, j \in 1..Len(notes) :
       /\ i # j
       /\ notes[i].lane = 2 /\ notes[j].lane = 2
       /\ \A k \in {i, j} :
            /\ HasOutcome(notes[k])
            /\ notes[k].hit_result[1].is_hit
            /\ notes[k].hit_result[1].hit_time = now
            /\ notes[k].visibility = "Hidden"

\* C16, held key: a frame has ended in which KeyJ was held without a press
\* edge while a note of lane 2 was Eligible, and the note is still Eligible
\* and visible.
C16_WitnessHeld ==
  /\ FrameComplete
  /\ "KeyJ" \in pressed
  /\ "KeyJ" \notin just_pressed
  /\ \E i \in 1..Len(at_start) :
       /\ at_start[i].is_evaluable
       /\ notes[i].lane = 2
       /\ notes[i].is_evaluable
       /\ notes[i].visibility = "Visible"

\* ------------------------------------------------------------------ C20
\* C20: hit_note and illuminate_lane use one lane-to-key table, total on
\* lanes 0..3 (0:D, 1:F, 2:J, 3:K).  The two matches agree with the table
\* on every lane; illuminate_lane changes the colour of a lane only on an
\* edge of that lane's key of the table and turns it active on the press
\* edge; hit_note queues a hit only for a note whose lane's key of the
\* table has the press edge; so at the end of a frame the lane of every
\* note hit in that frame is active.
C20_OneLaneKeyTable ==
  /\ [](\A l \in Lanes : KeyCode(l) = BoundKey(l) /\ LaneKeyCode(l) = BoundKey(l))
  /\ [][ /\ (~lit /\ lit') =>
              \A l \in Lanes :
                lane_color'[l] =
                  IF BoundKey(l) \in just_pressed THEN "active"
                  ELSE IF BoundKey(l) \in just_released THEN "idle"
                  ELSE lane_color[l]
         /\ (chain = 2 /\ chain' = 3) =>
              \A c \in hit_cmds' : BoundKey(notes[c[1]].lane) \in just_pressed
         /\ (chain = 5 /\ chain' = 6) =>
              \A i \in 1..Len(notes') :
                (/\ notes'[i].hit_result # << >>
                 /\ notes'[i].hit_result[1].is_hit
                 /\ notes'[i].hit_result[1].hit_time = now)
                  => lane_color'[notes'[i].lane] = "active"
       ]_vars

\* C20 witness: a frame has ended in which the press edge of KeyJ hit a
\* note of lane 2; lane 2 is active and lane 3, whose key had no edge, is
\* idle.
C20_Witness ==
  /\ FrameComplete
  /\ just_pressed = {"KeyJ"}
  /\ lane_color[2] = "active"
  /\ lane_color[3] = "idle"
  /\ \E i \in 1..Len(notes) :
       /\ notes[i].lane = 2
       /\ HasOutcome(notes[i])
       /\ notes[i].hit_result[1].is_hit
       /\ notes[i].hit_result[1].hit_time = now

\* ------------------------------------------------------------------ C12
\* C12: an invalid lane is fatal.  A LiveNote whose lane is outside 0..3
\* never carries an Outcome and is never queued for one, is never hidden,
\* keeps the lane of its beatmap entry and the position it was spawned at,
\* and no frame that began with such a note runs to its end: the run has
\* aborted before.  With the beatmap as load_song builds it (lane = i % 4,
\* every lane of entries 0..23 in 0..3) the run never aborts.
C12_InvalidLaneFatal ==
  /\ \A i \in 0..23 : NoteData(i).lane \in 0..3
  /\ (\A e \in DOMAIN song : song[e].lane \in 0..3) => ~aborted
  /\ \A i \in 1..Len(notes) :
       notes[i].lane \notin 0..3 =>
         /\ notes[i].hit_result = << >>
         /\ \A c \in hit_cmds \cup miss_cmds : c[1] # i
         /\ notes[i].visibility = "Visible"
         /\ \E e \in DOMAIN song :
              /\ notes[i].lane = song[e].lane
              /\ notes[i].time = song[e].time
         /\ notes[i].x = notes[i].lane * SPAWN_X_STEP
         /\ notes[i].y = SPAWN_Y
  /\ FrameComplete => \A i \in 1..Len(at_start) : at_start[i].lane \in 0..3

\* C12 witness: the run has aborted in hit_note, before move_notes_down ran
\* in that frame: a note of an invalid lane was Eligible when hit_note
\* reached it, in a frame that carried a press edge.
C12_Witness ==
  /\ aborted
  /\ ~moved
  /\ just_pressed # {}
  /\ \E i \in 1..Len(notes) :
       /\ notes[i].lane \notin 0..3
       /\ notes[i].is_evaluable

\* ------------------------------------------------------------- LiveSpec
\* The note systems on the entries of SpecPlay with the events of KeyJ,
\* the key of their lane, and with the schedule kept running: the Update
\* schedule runs frame after frame and every system of it runs in each
\* frame, so a step that is possible is taken in the end.  The clock then
\* reaches the last time of PlayTimes, which lies after both windows.
LiveKeys == {"KeyJ"}

InitLive ==
  /\ Loaded(PlayEntries)
  /\ song = [e \in PlayEntries |-> NoteData(e)]
  /\ \E k \in KeyboardFrames({}, LiveKeys) :
       /\ pressed = k.pressed
       /\ just_pressed = k.just_pressed
       /\ just_released = k.just_released

TickLive == NewFrame(PlayTimes, KeyboardFrames(pressed, LiveKeys))

NextLive ==
  \/ TickLive
  \/ move_notes_down
  \/ spawn_notes_from_song
  \/ evaluate_notes
  \/ ApplyDeferred
  \/ hit_note
  \/ handle_missed_notes
  \/ EndOfFrame

LiveSpec == InitLive /\ [][NextLive]_vars /\ WF_vars(NextLive)

\* ------------------------------------------------------------------ C18
\* C18: every LiveNote that becomes Eligible is eventually Resolved (it
\* carries an Outcome and is Eligible no longer), whatever the key events
\* of the frames are, as long as frames keep occurring and the clock passes
\* targetTime + HIT_MARGIN.
C18_EligibleEventuallyResolved ==
  \A i \in 1..Cardinality(PlayEntries) :
    (Len(notes) >= i /\ notes[i].is_evaluable)
      ~> (Len(notes) >= i /\ notes[i].hit_result # << >> /\ ~notes[i].is_evaluable)

\* C18 witness: a note that was Eligible and saw no press edge of its key
\* has been resolved as a miss by the clock alone.
C18_Witness ==
  /\ FrameComplete
  /\ \E i \in 1..Len(at_start) :
       /\ at_start[i].is_evaluable
       /\ BoundKey(notes[i].lane) \notin just_pressed
       /\ HasOutcome(notes[i])
       /\ ~notes[i].is_evaluable
       /\ ~notes[i].hit_result[1].is_hit

=========================================================================
